---- MODULE Spec2Model ----
(***************************************************************************)
(* Ticketing backend: the ticket purchase transaction (EventService /      *)
(* EventController), admin event edits, and the JWT + session-ledger       *)
(* authentication gate (authenticate, SessionService, AuthService).        *)
(*                                                                         *)
(* The database is modelled as committed tables (events, tickets,          *)
(* sessions) plus, for every open purchase transaction, its uncommitted    *)
(* writes (tx) and the row lock taken by SELECT ... FOR UPDATE (lock).     *)
(***************************************************************************)
EXTENDS Integers, Sequences, FiniteSets, TLC

(***************************************************************************)
(* Bounds of the model.                                                    *)
(***************************************************************************)
NProcs == 2          \* concurrent purchase requests
NEvents == 2         \* event ids 1..NEvents
NUsers == 2          \* user ids 1..NUsers
MaxTickets == 3      \* largest capacity of an event
MaxQty == 2          \* largest quantity a request asks for
MaxCreated == 1      \* events an admin creates
NGate == 1           \* requests passing the Authentication Gate at a time
MaxSessions == 2     \* rows ever inserted into table sessions
MaxTime == 3         \* the clock runs from 0 to MaxTime ticks
TicksPerSec == 2     \* clock ticks per second (Date.now() is finer than the JWT clock)
LifetimeSec == 1     \* JWT_EXPIRES_IN, in seconds
RetentionTicks == 1  \* the retention window of revoked rows, in ticks
NRegs == 2           \* registrations in flight at a time
MaxCount == 2        \* the number in a configured lifetime ("1d", "2d")
MaxIssueMs == 1      \* logins under test happen 0..MaxIssueMs ms and 999 ms into a second

Procs == 1..NProcs
EventIds == 1..NEvents
UserIds == 1..NUsers
GateProcs == 1..NGate
RegProcs == 1..NRegs

Statuses == {"upcoming", "live", "completed", "cancelled"}

VARIABLES
  events,       \* committed rows of table events, by id
  tickets,      \* committed rows of table tickets, in insertion order
  lock,         \* row lock of each event row: 0, or the process holding it
  pc,           \* position of each purchase request
  req,          \* the request: event id, quantity, authenticated user id
  tx,           \* the open transaction of the request: row read, pending writes
  err,          \* the Error thrown inside purchaseTickets (its message)
  resp,         \* the HTTP response of the request
  touched,      \* history: the request has changed a committed row
  decremented,  \* history: amount purchases have taken off available_tickets
  undone,       \* history: uncommitted ticket rows the ROLLBACK of the request dropped
  k0,           \* history: available_tickets of each event at the start
  adm,          \* the admin updateEvent call in flight
  now,          \* the clock (Date.now(), CURRENT_TIMESTAMP), in ticks
  users,        \* rows of table users, by id
  sessions,     \* rows of table sessions (the Session Ledger)
  nextSessionId,\* SERIAL id of the next sessions row
  issued,       \* the tokens login has returned to clients
  gate,         \* the request each run of authenticate is handling
  lastLogout,   \* the last POST /api/auth/logout and its response
  revokedDone,  \* history: tokens for which revokeToken returned true
  lastLogin,    \* the last POST /api/auth/login and its response
  lastUpdate,   \* the last PUT /api/users/:id and its response
  reg,          \* the registrations (POST /api/auth/register) in flight
  lastLogoutAll,\* the last revokeAllUserSessions call and its result
  lt,           \* a token lifetime under test: configuration, issue, probes
  authz         \* the last call of an authorize(...allowedRoles) middleware

eventVars == <<events, tickets, lock, pc, req, tx, err, resp, touched, decremented, undone, k0, adm>>
authVars == <<now, users, sessions, nextSessionId, issued, gate, lastLogout, revokedDone>>
acctVars == <<lastLogin, lastUpdate, reg, lastLogoutAll, lt, authz>>
vars == <<eventVars, authVars, acctVars>>

(***************************************************************************)
(* Rows and values.                                                        *)
(***************************************************************************)
NoEvent == [exists |-> FALSE, total_tickets |-> 0, available_tickets |-> 0, status |-> "none"]

EventRow(total, available, status) ==
  [exists |-> TRUE, total_tickets |-> total, available_tickets |-> available, status |-> status]

NoReq == [eventId |-> 0, quantity |-> 0, userId |-> 0]
NoTx == [read |-> NoEvent, wrote |-> FALSE, newAvailable |-> 0, inserted |-> 0, open |-> FALSE]
NoErr == <<>>
NoResp == [status |-> 0, message |-> <<>>]

\* an optional field of a DTO: {} when undefined, {v} when set to v
Opt(S) == {{}} \cup {{v} : v \in S}
Val(o) == CHOOSE v \in o : TRUE

NoData == [total_tickets |-> {}, available_tickets |-> {}, status |-> {}]
AdmIdle == [pc |-> "idle", id |-> 0, data |-> NoData, newAvailable |-> 0]

\* tickets INSERT of purchaseTickets: one row per unit, quantity 1
TicketRow(eventId, userId) == [event_id |-> eventId, user_id |-> userId, quantity |-> 1]

RECURSIVE Repeat(_, _)
Repeat(x, n) == IF n = 0 THEN <<>> ELSE <<x>> \o Repeat(x, n - 1)

RECURSIVE CountRows(_, _)
CountRows(rows, eventId) ==
  IF rows = <<>> THEN 0
  ELSE (IF Head(rows).event_id = eventId THEN 1 ELSE 0) + CountRows(Tail(rows), eventId)

Sold(eventId) == CountRows(tickets, eventId)

(***************************************************************************)
(* Error messages, as the pieces the controller's includes() looks for.    *)
(***************************************************************************)
MsgNotFound == <<"Event ", "not found">>
\* the two numbers of the message swapped
MsgCapacityBroken(available, quantity) ==
  <<"Not enough tickets ", "available", ". Available: ", ToString(quantity),
    ", Requested: ", ToString(available)>>

MsgCapacity(available, quantity) ==
  <<"Not enough tickets ", "available", ". Available: ", ToString(available),
    ", Requested: ", ToString(quantity)>>
MsgStatus(status) == <<"Cannot purchase tickets for ", status, " event">>
MsgFault == <<"Connection terminated unexpectedly">>
MsgCheck == <<"new row for relation events violates check constraint">>
MsgQuantity == <<"Quantity must be at least 1">>

\* String.prototype.includes on a message
Includes(message, piece) == \E i \in DOMAIN message : message[i] = piece

\* EventController.purchaseTickets catch block: the status is picked from the message
PurchaseStatusCode(message) ==
  IF Includes(message, "not found") THEN 404
  ELSE IF Includes(message, "available") THEN 400
  ELSE 500

(***************************************************************************)
(* EventService.purchaseTickets, called by EventController.purchaseTickets *)
(***************************************************************************)

\* the row is read without FOR UPDATE: nothing to wait for
RowLockFreeBroken(eventId) == TRUE

\* SELECT ... FOR UPDATE waits while another transaction holds the row lock
RowLockFree(eventId) == lock[eventId] = 0

\* a transaction whose end leaves its row locks in place
ReleaseLocksBroken(p) == lock

\* the end of the transaction of p (COMMIT or ROLLBACK) releases its row locks
ReleaseLocks(p) == [e \in EventIds |-> IF lock[e] = p THEN 0 ELSE lock[e]]

\* events.available_tickets INTEGER NOT NULL CHECK (available_tickets >= 0)
AvailableCheck(available) == available >= 0

\* events.total_tickets INTEGER NOT NULL CHECK (total_tickets >= 0)
TotalCheck(total) == total >= 0

\* "if (event.available_tickets < quantity)"
NotEnough(event, quantity) == event.available_tickets < quantity

\* "if (event.status !== 'upcoming' && event.status !== 'live')"
WrongStatus(event) == event.status # "upcoming" /\ event.status # "live"

\* the tables as the transaction of p sees them: its own writes applied
EventsWith(p) ==
  IF tx[p].wrote
  THEN [events EXCEPT ![req[p].eventId].available_tickets = tx[p].newAvailable]
  ELSE events

\* one row for the whole batch instead of one row per unit
TicketsWithBroken(p) ==
  tickets \o (IF tx[p].inserted > 0
              THEN <<TicketRow(req[p].eventId, req[p].userId)>> ELSE <<>>)

TicketsWith(p) ==
  tickets \o Repeat(TicketRow(req[p].eventId, req[p].userId), tx[p].inserted)

\* the inserts went through the pool instead of the transaction's client
RollbackTicketsBroken(p) == TicketsWith(p)

\* ROLLBACK: the committed tables stay as they are, the writes of p are dropped
RollbackEvents(p) == events
RollbackTickets(p) == tickets

\* history variables, kept by every step of a purchase request
History(p) ==
  /\ undone' = [undone EXCEPT ![p] = IF pc[p] = "catch" THEN tx[p].inserted ELSE @]
  /\ touched' = [touched EXCEPT ![p] = @ \/ events' # events \/ tickets' # tickets]
  /\ decremented' = [e \in EventIds |->
        decremented[e] + events[e].available_tickets - events'[e].available_tickets]

\* the identity the Authentication Gate attached to the request of p (req.user)
IdentityOf(p) == ((p - 1) % NUsers) + 1

\* controller: "const userId = req.user?.userId", validation of the body; then
\* the service: pool.connect() and client.query("BEGIN")
StartPurchase(p, eventId, quantity) ==
  /\ pc[p] = "idle"
  /\ req' = [req EXCEPT ![p] =
        [eventId |-> eventId, quantity |-> quantity, userId |-> IdentityOf(p)]]
  /\ IF quantity < 1
     THEN /\ resp' = [resp EXCEPT ![p] = [status |-> 400, message |-> MsgQuantity]]
          /\ pc' = [pc EXCEPT ![p] = "done"]
          /\ tx' = tx
     ELSE /\ resp' = resp
          /\ pc' = [pc EXCEPT ![p] = "select"]
          /\ tx' = [tx EXCEPT ![p].open = TRUE]
  /\ UNCHANGED <<events, tickets, lock, err, k0, adm>>
  /\ History(p)
  /\ UNCHANGED authVars
  /\ UNCHANGED acctVars

\* SELECT * FROM events WHERE id = $1 FOR UPDATE, and the checks on the row
SelectForUpdate(p) ==
  LET e == req[p].eventId
      q == req[p].quantity
      row == events[e]
  IN /\ pc[p] = "select"
     /\ row.exists => RowLockFree(e)
     /\ IF ~row.exists
        THEN /\ err' = [err EXCEPT ![p] = MsgNotFound]
             /\ pc' = [pc EXCEPT ![p] = "catch"]
             /\ UNCHANGED <<lock, tx>>
        ELSE /\ lock' = [lock EXCEPT ![e] = p]
             /\ tx' = [tx EXCEPT ![p].read = row]
             /\ IF NotEnough(row, q)
                THEN /\ err' = [err EXCEPT ![p] = MsgCapacity(row.available_tickets, q)]
                     /\ pc' = [pc EXCEPT ![p] = "catch"]
                ELSE IF WrongStatus(row)
                THEN /\ err' = [err EXCEPT ![p] = MsgStatus(row.status)]
                     /\ pc' = [pc EXCEPT ![p] = "catch"]
                ELSE /\ err' = err
                     /\ pc' = [pc EXCEPT ![p] = "update"]
     /\ UNCHANGED <<events, tickets, req, resp, k0, adm>>
     /\ History(p)
     /\ UNCHANGED authVars
     /\ UNCHANGED acctVars

\* UPDATE events SET available_tickets = $1 (inside the transaction)
UpdateAvailable(p) ==
  LET newAvailable == tx[p].read.available_tickets - req[p].quantity
  IN /\ pc[p] = "update"
     /\ IF AvailableCheck(newAvailable)
        THEN /\ tx' = [tx EXCEPT ![p].wrote = TRUE, ![p].newAvailable = newAvailable]
             /\ pc' = [pc EXCEPT ![p] = "insert"]
             /\ err' = err
        ELSE /\ tx' = tx
             /\ pc' = [pc EXCEPT ![p] = "catch"]
             /\ err' = [err EXCEPT ![p] = MsgCheck]
     /\ UNCHANGED <<events, tickets, lock, req, resp, k0, adm>>
     /\ History(p)
     /\ UNCHANGED authVars
     /\ UNCHANGED acctVars

\* one turn of the loop "for (let i = 0; i < quantity; i++) INSERT INTO tickets"
InsertTicket(p) ==
  /\ pc[p] = "insert"
  /\ tx[p].inserted < req[p].quantity
  /\ tx' = [tx EXCEPT ![p].inserted = @ + 1]
  /\ pc' = [pc EXCEPT ![p] = IF tx[p].inserted + 1 < req[p].quantity THEN "insert" ELSE "commit"]
  /\ UNCHANGED <<events, tickets, lock, req, err, resp, k0, adm>>
  /\ History(p)
  /\ UNCHANGED authVars
  /\ UNCHANGED acctVars

\* the transaction is over: its pending writes are gone, the row read stays in "event"
EndTx(t) == [t EXCEPT !.wrote = FALSE, !.newAvailable = 0, !.inserted = 0, !.open = FALSE]

\* client.query("COMMIT"): the writes become visible, the row lock is released
Commit(p) ==
  /\ pc[p] = "commit"
  /\ events' = EventsWith(p)
  /\ tickets' = TicketsWith(p)
  /\ lock' = ReleaseLocks(p)
  /\ tx' = [tx EXCEPT ![p] = EndTx(tx[p])]
  /\ pc' = [pc EXCEPT ![p] = "reread"]
  /\ UNCHANGED <<req, err, resp, k0, adm>>
  /\ History(p)
  /\ UNCHANGED authVars
  /\ UNCHANGED acctVars

\* "const updatedEvent = await this.getEventById(eventId)" and the 200 response
Reread(p) ==
  /\ pc[p] = "reread"
  /\ resp' = [resp EXCEPT ![p] = [status |-> 200, message |-> <<"Successfully purchased">>]]
  /\ pc' = [pc EXCEPT ![p] = "done"]
  /\ UNCHANGED <<events, tickets, lock, req, tx, err, k0, adm>>
  /\ History(p)
  /\ UNCHANGED authVars
  /\ UNCHANGED acctVars

\* any query inside the try block rejects (connection lost, server error)
QueryFault(p) ==
  /\ pc[p] \in {"select", "update", "insert", "commit", "reread"}
  /\ err' = [err EXCEPT ![p] = MsgFault]
  /\ pc' = [pc EXCEPT ![p] = "catch"]
  /\ UNCHANGED <<events, tickets, lock, req, tx, resp, k0, adm>>
  /\ History(p)
  /\ UNCHANGED authVars
  /\ UNCHANGED acctVars

\* catch: ROLLBACK, rethrow; finally: release; controller catch: the response
Catch(p) ==
  /\ pc[p] = "catch"
  /\ events' = RollbackEvents(p)
  /\ tickets' = RollbackTickets(p)
  /\ lock' = ReleaseLocks(p)
  /\ tx' = [tx EXCEPT ![p] = EndTx(tx[p])]
  /\ resp' = [resp EXCEPT ![p] = [status |-> PurchaseStatusCode(err[p]), message |-> err[p]]]
  /\ pc' = [pc EXCEPT ![p] = "done"]
  /\ UNCHANGED <<req, err, k0, adm>>
  /\ History(p)
  /\ UNCHANGED authVars
  /\ UNCHANGED acctVars

(***************************************************************************)
(* SpecPurchase: purchase requests against events that already exist.      *)
(***************************************************************************)
(***************************************************************************)
(* Tokens (jsonwebtoken) and the Authorization header.                     *)
(***************************************************************************)
\* the clock of jsonwebtoken: Math.floor(Date.now() / 1000)
Seconds(t) == t \div TicksPerSec

\* generateToken: jwt.sign({userId, email, role}, secret, {expiresIn}); the
\* library adds iat = now in seconds and exp = iat + expiresIn. Same payload
\* and same second give the same token string.
GenerateToken(userId, role, t) ==
  [kind |-> "jwt", userId |-> userId, role |-> role,
   iat |-> Seconds(t), exp |-> Seconds(t) + LifetimeSec]

\* a string that is no token of this server (bad signature or malformed)
ForgedToken == [kind |-> "forged", userId |-> 0, role |-> "none", iat |-> 0, exp |-> 0]
\* the empty string
EmptyToken == [kind |-> "empty", userId |-> 0, role |-> "none", iat |-> 0, exp |-> 0]

NoHeader == [scheme |-> "none", token |-> EmptyToken]
BearerHeader(token) == [scheme |-> "bearer", token |-> token]
RawHeader(token) == [scheme |-> "raw", token |-> token]

\* the Authorization headers a client can send: none, "Bearer " + a string,
\* or the bare string; the strings are the tokens it was given, a forgery, ""
Headers ==
  {NoHeader} \cup {BearerHeader(t) : t \in issued \cup {ForgedToken, EmptyToken}}
             \cup {RawHeader(t) : t \in issued \cup {ForgedToken}}

\* jwt.verify: "invalid" (JsonWebTokenError), "expired" (TokenExpiredError,
\* clockTimestamp >= exp) or "ok"
JwtVerify(token, t) ==
  IF token.kind # "jwt" THEN "invalid"
  ELSE IF Seconds(t) >= token.exp THEN "expired"
  ELSE "ok"

\* authenticate, up to the ledger lookup: the 401 message, or "ok"
CheckHeader(header, t) ==
  IF header.scheme = "none" THEN "No token provided"
  ELSE IF header.token.kind = "empty" THEN "Invalid token format"
  ELSE IF JwtVerify(header.token, t) = "expired" THEN "Token expired"
  ELSE IF JwtVerify(header.token, t) = "invalid" THEN "Invalid token"
  ELSE "ok"

(***************************************************************************)
(* SessionService.                                                         *)
(***************************************************************************)
\* hashToken: SHA-256 of the token string, one digest per string
HashToken(token) == [sha256 |-> token]

\* AuthService.getExpirationDate: now + the lifetime in milliseconds
GetExpirationDate(t) == t + LifetimeSec * TicksPerSec

\* createSession: the row INSERT INTO sessions produces
SessionRow(id, userId, token, expiresAt, t) ==
  [id |-> id, user_id |-> userId, token_hash |-> HashToken(token), expires_at |-> expiresAt,
   is_revoked |-> FALSE, revoked_at |-> {}, last_used_at |-> t]

\* findSessionByToken: "SELECT * FROM sessions WHERE token_hash = $1 LIMIT 1"
\* has no ORDER BY: any matching row may be the one returned; {} is null
FindSessionByToken(token) ==
  LET found == {r \in sessions : r.token_hash = HashToken(token)}
  IN IF found = {} THEN {{}} ELSE {{r} : r \in found}

\* isTokenValid with the revocation check left out
IsTokenValidBroken(session, t) ==
  IF session = {} THEN FALSE
  ELSE IF Val(session).expires_at < t THEN FALSE
  ELSE TRUE

\* isTokenValid on the row findSessionByToken returned
IsTokenValid(session, t) ==
  IF session = {} THEN FALSE
  ELSE IF Val(session).is_revoked THEN FALSE
  ELSE IF Val(session).expires_at < t THEN FALSE
  ELSE TRUE

\* revokeToken without "AND is_revoked = false"
RevokedByTokenBroken(token) == {r \in sessions : r.token_hash = HashToken(token)}

\* the rows revokeToken changes: WHERE token_hash = $1 AND is_revoked = false
RevokedByToken(token) ==
  {r \in sessions : r.token_hash = HashToken(token) /\ ~r.is_revoked}

\* revokeToken: SET is_revoked = true, revoked_at = CURRENT_TIMESTAMP
RevokeToken(token, t) ==
  {IF r \in RevokedByToken(token) THEN [r EXCEPT !.is_revoked = TRUE, !.revoked_at = {t}] ELSE r
     : r \in sessions}

\* updateLastUsed: SET last_used_at = CURRENT_TIMESTAMP
\*                 WHERE token_hash = $1 AND is_revoked = false
UpdateLastUsed(token, t) ==
  {IF r.token_hash = HashToken(token) /\ ~r.is_revoked THEN [r EXCEPT !.last_used_at = t] ELSE r
     : r \in sessions}

\* a cleanup without the retention window of revoked rows
CleanupDeletesBroken(r, t) == r.expires_at < t \/ r.is_revoked

\* cleanupExpiredSessions: DELETE WHERE expires_at < CURRENT_TIMESTAMP
\*   OR (is_revoked = true AND revoked_at < CURRENT_TIMESTAMP - INTERVAL '30 days')
CleanupDeletes(r, t) ==
  \/ r.expires_at < t
  \/ r.is_revoked /\ r.revoked_at # {} /\ Val(r.revoked_at) < t - RetentionTicks

(***************************************************************************)
(* The requests of the authentication subsystem.                           *)
(***************************************************************************)
NoIdentity == [userId |-> 0, role |-> "none"]
GateIdle == [pc |-> "idle", header |-> NoHeader, message |-> "", user |-> NoIdentity,
             afterRevoke |-> FALSE]
NoLogout == [status |-> 0, changed |-> 0, admissible |-> FALSE,
             hadRow |-> FALSE, hadRevoked |-> FALSE]

\* time passes
Tick ==
  /\ now < MaxTime
  /\ now' = now + 1
  /\ UNCHANGED <<users, sessions, nextSessionId, issued, gate, lastLogout, revokedDone>>
  /\ UNCHANGED eventVars
  /\ UNCHANGED acctVars

\* the rows of table users with this email (at most one: email is UNIQUE)
UsersByEmail(email) == {u \in UserIds : users[u].exists /\ users[u].email = email}

MsgInvalidLogin == <<"Invalid", " email or password">>
MsgInactive == <<"User account is ", "inactive">>
MsgLoginOk == <<"Login successful">>

\* AuthController.login, catch: includes("Invalid") || includes("inactive") ? 401 : 500
LoginStatusCode(message) ==
  IF Includes(message, "Invalid") \/ Includes(message, "inactive") THEN 401 ELSE 500

NoLogin == [status |-> 0, message |-> <<>>, hadAccount |-> FALSE, passwordOk |-> FALSE]

\* the response of a login that threw this message
LoginFailed(message, hadAccount, passwordOk) ==
  [status |-> LoginStatusCode(message), message |-> message,
   hadAccount |-> hadAccount, passwordOk |-> passwordOk]

\* AuthService.login, the checks before a token is made: no row for the
\* email -> "Invalid email or password"; !user.is_active -> "User account is
\* inactive"; bcrypt.compare false -> "Invalid email or password"; <<>> when
\* every check passes
LoginRejectionBroken(email, passwordOk) ==
  IF UsersByEmail(email) = {} THEN MsgInvalidLogin
  ELSE IF ~passwordOk THEN MsgInvalidLogin
  ELSE <<>>

LoginRejection(email, passwordOk) ==
  IF UsersByEmail(email) = {} THEN MsgInvalidLogin
  ELSE IF ~users[CHOOSE u \in UsersByEmail(email) : TRUE].is_active THEN MsgInactive
  ELSE IF ~passwordOk THEN MsgInvalidLogin
  ELSE <<>>

\* AuthService.login behind AuthController.login: a failed check throws its
\* message; else generateToken and createSession, whose INSERT may throw
\* (fault), and only then the 200 response with the token
Login(email, passwordOk, fault) ==
  LET found == UsersByEmail(email)
      userId == CHOOSE u \in found : TRUE
      user == users[userId]
      token == GenerateToken(userId, user.role, now)
      rejection == LoginRejection(email, passwordOk)
  IN /\ IF rejection # <<>>
        THEN /\ lastLogin' = LoginFailed(rejection, found # {}, passwordOk)
             /\ UNCHANGED <<sessions, nextSessionId, issued>>
        ELSE IF fault
        THEN /\ lastLogin' = LoginFailed(MsgFault, TRUE, passwordOk)
             /\ UNCHANGED <<sessions, nextSessionId, issued>>
        ELSE /\ nextSessionId <= MaxSessions
             /\ sessions' = sessions \cup
                  {SessionRow(nextSessionId, userId, token, GetExpirationDate(now), now)}
             /\ nextSessionId' = nextSessionId + 1
             /\ issued' = issued \cup {token}
             /\ lastLogin' = [status |-> 200, message |-> MsgLoginOk,
                              hadAccount |-> found # {}, passwordOk |-> passwordOk]
     /\ UNCHANGED <<now, users, gate, lastLogout, revokedDone>>
     /\ UNCHANGED eventVars
     /\ UNCHANGED <<lastUpdate, reg, lastLogoutAll, lt, authz>>

\* authenticate, first part: header, token extraction, jwt.verify
GateStart(g, header) ==
  /\ gate[g].pc \in {"idle", "next", "done", "r401", "r500"}
  /\ header \in Headers
  /\ gate' = [gate EXCEPT ![g] =
       [pc |-> IF CheckHeader(header, now) = "ok" THEN "ledger" ELSE "r401",
        header |-> header,
        message |-> IF CheckHeader(header, now) = "ok" THEN "" ELSE CheckHeader(header, now),
        user |-> NoIdentity,
        afterRevoke |-> header.token \in revokedDone]]
  /\ UNCHANGED <<now, users, sessions, nextSessionId, issued, lastLogout, revokedDone>>
  /\ UNCHANGED eventVars
  /\ UNCHANGED acctVars

\* authenticate: "const isValid = await sessionService.isTokenValid(token)"
GateLedger(g) ==
  /\ gate[g].pc = "ledger"
  /\ \E session \in FindSessionByToken(gate[g].header.token) :
       IF IsTokenValid(session, now)
       THEN gate' = [gate EXCEPT ![g].pc = "touch"]
       ELSE gate' = [gate EXCEPT ![g].pc = "r401", ![g].message = "Token has been revoked"]
  /\ UNCHANGED <<now, users, sessions, nextSessionId, issued, lastLogout, revokedDone>>
  /\ UNCHANGED eventVars
  /\ UNCHANGED acctVars

\* authenticate: "await sessionService.updateLastUsed(token)", req.user, next()
GateTouch(g) ==
  LET token == gate[g].header.token
  IN /\ gate[g].pc = "touch"
     /\ sessions' = UpdateLastUsed(token, now)
     /\ gate' = [gate EXCEPT ![g].pc = "next",
                             ![g].user = [userId |-> token.userId, role |-> token.role]]
     /\ UNCHANGED <<now, users, nextSessionId, issued, lastLogout, revokedDone>>
     /\ UNCHANGED eventVars
     /\ UNCHANGED acctVars

\* a gate that answers a rejected query like a rejected credential
GateFaultBroken(g) ==
  /\ gate[g].pc \in {"ledger", "touch"}
  /\ gate' = [gate EXCEPT ![g].pc = "r401", ![g].message = "Token has been revoked"]
  /\ UNCHANGED <<now, users, sessions, nextSessionId, issued, lastLogout, revokedDone>>
  /\ UNCHANGED eventVars
  /\ UNCHANGED acctVars

\* a query of authenticate rejects: the outer catch answers 500
GateFault(g) ==
  /\ gate[g].pc \in {"ledger", "touch"}
  /\ gate' = [gate EXCEPT ![g].pc = "r500", ![g].message = "Token verification failed"]
  /\ UNCHANGED <<now, users, sessions, nextSessionId, issued, lastLogout, revokedDone>>
  /\ UNCHANGED eventVars
  /\ UNCHANGED acctVars

\* whether authenticate can admit a request with this header in this state
Admissible(header) ==
  /\ CheckHeader(header, now) = "ok"
  /\ \E r \in sessions :
       r.token_hash = HashToken(header.token) /\ ~r.is_revoked /\ ~(r.expires_at < now)

\* history: the ledger holds a row for the token with this is_revoked
HasRow(token, revoked) ==
  \E r \in sessions : r.token_hash = HashToken(token) /\ r.is_revoked = revoked

\* AuthController.logout: the token the controller takes from the header,
\* req.headers.authorization?.replace("Bearer ", "") || ""
LogoutToken(header) == header.token

\* POST /api/auth/logout: the route calls AuthController.logout directly
\* (router.post("/logout", (req, res) => authController.logout(req, res)));
\* the controller answers 200 once revokeToken returns, 500 when it rejects
Logout(header, fault) ==
  LET token == LogoutToken(header)
  IN /\ header \in Headers
     /\ IF fault
        THEN /\ lastLogout' = [status |-> 500, changed |-> 0,
                               admissible |-> Admissible(header),
                               hadRow |-> HasRow(token, FALSE),
                               hadRevoked |-> HasRow(token, TRUE)]
             /\ UNCHANGED <<sessions, revokedDone>>
        ELSE /\ sessions' = RevokeToken(token, now)
             /\ revokedDone' = IF RevokedByToken(token) # {} THEN revokedDone \cup {token}
                               ELSE revokedDone
             /\ lastLogout' = [status |-> 200,
                               changed |-> Cardinality(RevokedByToken(token)),
                               admissible |-> Admissible(header),
                               hadRow |-> HasRow(token, FALSE),
                               hadRevoked |-> HasRow(token, TRUE)]
     /\ UNCHANGED <<now, users, nextSessionId, issued, gate>>
     /\ UNCHANGED eventVars
     /\ UNCHANGED acctVars

\* the hourly job of startServer: sessionService.cleanupExpiredSessions()
Cleanup ==
  /\ sessions' = {r \in sessions : ~CleanupDeletes(r, now)}
  /\ sessions' # sessions
  /\ UNCHANGED <<now, users, nextSessionId, issued, gate, lastLogout, revokedDone>>
  /\ UNCHANGED eventVars
  /\ UNCHANGED acctVars

(***************************************************************************)
(* Spec: the authentication subsystem.                                     *)
(***************************************************************************)
\* a row of table users: role DEFAULT 'user', is_active DEFAULT true
UserRow(email, role) ==
  [exists |-> TRUE, email |-> email, role |-> role, is_active |-> TRUE, first_name |-> ""]
NoUser == [exists |-> FALSE, email |-> "", role |-> "user", is_active |-> FALSE, first_name |-> ""]

\* the email addresses clients use
Emails == {"ann", "bob", "eve"}

\* users seeded at start: id 1 is the admin "ann", every other id is the user "bob"
InitUsers ==
  users = [u \in UserIds |-> IF u = 1 THEN UserRow("ann", "admin") ELSE UserRow("bob", "user")]

NoUserData == [role |-> {}, is_active |-> {}, first_name |-> {}]
NoUpdate == [status |-> 0, requester |-> NoIdentity, id |-> 0, data |-> NoUserData]
RegIdle == [pc |-> "idle", email |-> "", status |-> 0, message |-> <<>>]
NoLogoutAll == [userId |-> 0, count |-> 0, turn |-> 0]
NoLifetime == [pc |-> "idle", expiresIn |-> [n |-> 0, unit |-> <<>>], issuedAt |-> 0,
               exp |-> 0, expiresAt |-> 0, probedAt |-> 0, signatureOk |-> FALSE,
               ledgerOk |-> FALSE]

\* no authorize call yet
NoAuthz == [pc |-> "idle", user |-> NoIdentity, allowed |-> {}]

InitAcct ==
  /\ lastLogin = NoLogin
  /\ lastUpdate = NoUpdate
  /\ reg = [r \in RegProcs |-> RegIdle]
  /\ lastLogoutAll = NoLogoutAll
  /\ lt = NoLifetime
  /\ authz = NoAuthz

InitAuth ==
  /\ now = 0
  /\ InitUsers
  /\ sessions = {}
  /\ nextSessionId = 1
  /\ issued = {}
  /\ gate = [g \in GateProcs |-> GateIdle]
  /\ lastLogout = NoLogout
  /\ revokedDone = {}
  /\ InitAcct

InitProcs ==
  /\ lock = [e \in EventIds |-> 0]
  /\ pc = [p \in Procs |-> "idle"]
  /\ req = [p \in Procs |-> NoReq]
  /\ tx = [p \in Procs |-> NoTx]
  /\ err = [p \in Procs |-> NoErr]
  /\ resp = [p \in Procs |-> NoResp]
  /\ touched = [p \in Procs |-> FALSE]
  /\ decremented = [e \in EventIds |-> 0]
  /\ undone = [p \in Procs |-> 0]
  /\ adm = AdmIdle

\* event 1 exists with any remaining inventory and any status; the other ids
\* are not in use (a purchase of them finds no row)
InitPurchase ==
  /\ \E k \in 0..MaxTickets, s \in Statuses :
       events = [e \in EventIds |->
                   IF e = 1 THEN EventRow(MaxTickets, k, s) ELSE NoEvent]
  /\ tickets = <<>>
  /\ k0 = [e \in EventIds |-> events[e].available_tickets]
  /\ InitProcs
  /\ InitAuth

NextPurchase ==
  \/ \E p \in Procs, e \in EventIds, q \in 0..MaxQty : StartPurchase(p, e, q)
  \/ \E p \in Procs : SelectForUpdate(p)
  \/ \E p \in Procs : UpdateAvailable(p)
  \/ \E p \in Procs : InsertTicket(p)
  \/ \E p \in Procs : Commit(p)
  \/ \E p \in Procs : Reread(p)
  \/ \E p \in Procs : QueryFault(p)
  \/ \E p \in Procs : Catch(p)

SpecPurchase == InitPurchase /\ [][NextPurchase]_vars

(***************************************************************************)
(* SpecLocks: purchases of two events on sale; every query a request       *)
(* awaits eventually returns or rejects.                                   *)
(***************************************************************************)
InitLocks ==
  /\ \E k \in 1..MaxTickets :
       events = [e \in EventIds |-> EventRow(MaxTickets, k, "upcoming")]
  /\ tickets = <<>>
  /\ k0 = [e \in EventIds |-> events[e].available_tickets]
  /\ InitProcs
  /\ InitAuth

\* the next step of request p, whichever it is: the awaited query returns
\* (a SELECT ... FOR UPDATE once the row lock is free) or rejects
StepOf(p) ==
  \/ SelectForUpdate(p)
  \/ UpdateAvailable(p)
  \/ InsertTicket(p)
  \/ Commit(p)
  \/ Reread(p)
  \/ QueryFault(p)
  \/ Catch(p)

SpecLocks == InitLocks /\ [][NextPurchase]_vars /\ \A p \in Procs : WF_vars(StepOf(p))

(***************************************************************************)
(* EventService.createEvent and EventService.updateEvent (admin routes).   *)
(***************************************************************************)
Max(a, b) == IF a >= b THEN a ELSE b

\* SERIAL PRIMARY KEY: the next id of table events
NextEventId == Cardinality({e \in EventIds : events[e].exists}) + 1

\* EventController.createEvent + EventService.createEvent:
\* "if (!data.total_tickets || data.total_tickets < 1)" -> 400 and no row, else
\* INSERT ... total_tickets = $5, available_tickets = $5, status = data.status || "upcoming"
CreateEvent(total, status) ==
  /\ adm.pc = "idle"
  /\ NextEventId \in EventIds
  /\ NextEventId <= MaxCreated
  /\ IF total < 1
     THEN events' = events
     ELSE events' = [events EXCEPT ![NextEventId] =
             EventRow(total, total, IF status = {} THEN "upcoming" ELSE Val(status))]
  /\ adm' = adm
  /\ k0' = [e \in EventIds |-> events'[e].available_tickets]
  /\ UNCHANGED <<tickets, lock, pc, req, tx, err, resp, touched, decremented, undone>>
  /\ UNCHANGED authVars
  /\ UNCHANGED acctVars

\* updateEvent up to its UPDATE: with total_tickets in the body the current
\* row is read first (getEventById, no lock) and available_tickets is
\* recomputed from that reading; "Event not found" is thrown (500) when the
\* reading finds no row
UpdateEventRead(id, data) ==
  /\ adm.pc = "idle"
  /\ data # NoData
  /\ IF data.total_tickets # {} /\ ~events[id].exists
     THEN adm' = adm
     ELSE adm' = [pc |-> "write", id |-> id, data |-> data,
                  newAvailable |->
                    IF data.total_tickets = {} THEN 0
                    ELSE Max(0, events[id].available_tickets
                                  + (Val(data.total_tickets) - events[id].total_tickets))]
  /\ UNCHANGED <<events, tickets, lock, pc, req, tx, err, resp, touched, decremented, undone, k0>>
  /\ UNCHANGED authVars
  /\ UNCHANGED acctVars

\* the row the SET list of updateEvent produces
UpdatedRow(row, data, newAvailable) ==
  [exists |-> TRUE,
   total_tickets |-> IF data.total_tickets = {} THEN row.total_tickets
                     ELSE Val(data.total_tickets),
   available_tickets |-> IF data.available_tickets # {} THEN Val(data.available_tickets)
                         ELSE IF data.total_tickets # {} THEN newAvailable
                         ELSE row.available_tickets,
   status |-> IF data.status = {} THEN row.status ELSE Val(data.status)]

\* "UPDATE events SET ... WHERE id = $n RETURNING *": waits for the row lock
\* of a purchase; a SET list naming available_tickets twice is rejected, and
\* so is a row that violates a CHECK constraint (both 500, the row stays);
\* no row -> 404
UpdateEventWrite ==
  LET id == adm.id
      row == UpdatedRow(events[id], adm.data, adm.newAvailable)
  IN /\ adm.pc = "write"
     /\ events[id].exists => RowLockFree(id)
     /\ IF ~events[id].exists
        THEN events' = events
        ELSE IF \/ adm.data.total_tickets # {} /\ adm.data.available_tickets # {}
                \/ ~AvailableCheck(row.available_tickets)
                \/ ~TotalCheck(row.total_tickets)
        THEN events' = events
        ELSE events' = [events EXCEPT ![id] = row]
     /\ adm' = AdmIdle
     /\ UNCHANGED <<tickets, lock, pc, req, tx, err, resp, touched, decremented, undone, k0>>
     /\ UNCHANGED authVars
     /\ UNCHANGED acctVars

(***************************************************************************)
(* SpecEvent: events are created and edited by an admin while a purchase   *)
(* request runs.                                                           *)
(***************************************************************************)
InitEvent ==
  /\ events = [e \in EventIds |-> NoEvent]
  /\ tickets = <<>>
  /\ k0 = [e \in EventIds |-> 0]
  /\ InitProcs
  /\ InitAuth

\* the statuses an admin sends in SpecEvent: none (the default) or the end of sales
AdminStatuses == Opt({"completed"})

\* bodies of PUT /api/events/:id: a new capacity, a new available count,
\* both, or a new status
UpdateData ==
  {d \in [total_tickets : Opt(0..MaxTickets), available_tickets : Opt(0..MaxTickets),
          status : AdminStatuses] :
     /\ d # NoData
     /\ d.status # {} => d.total_tickets = {} /\ d.available_tickets = {}}

NextEvent ==
  \/ \E total \in 0..MaxTickets, status \in AdminStatuses : CreateEvent(total, status)
  \/ \E id \in EventIds, data \in UpdateData : UpdateEventRead(id, data)
  \/ UpdateEventWrite
  \/ \E e \in 1..MaxCreated, q \in 1..MaxQty : StartPurchase(1, e, q)
  \/ SelectForUpdate(1)
  \/ UpdateAvailable(1)
  \/ InsertTicket(1)
  \/ Commit(1)
  \/ Reread(1)
  \/ Catch(1)

SpecEvent == InitEvent /\ [][NextEvent]_vars

Init ==
  /\ InitAuth
  /\ events = [e \in EventIds |-> NoEvent]
  /\ tickets = <<>>
  /\ k0 = [e \in EventIds |-> 0]
  /\ InitProcs

Next ==
  \/ Tick
  \/ \E u \in UserIds : Login(users[u].email, TRUE, FALSE)
  \/ \E g \in GateProcs, h \in Headers : GateStart(g, h)
  \/ \E g \in GateProcs : GateLedger(g)
  \/ \E g \in GateProcs : GateTouch(g)
  \/ \E g \in GateProcs : GateFault(g)
  \/ \E h \in Headers, fault \in BOOLEAN : Logout(h, fault)
  \/ Cleanup

Spec == Init /\ [][Next]_vars

(***************************************************************************)
(* Accounts: registration and PUT /api/users/:id.                          *)
(***************************************************************************)
\* the fields of UpdateUserDto a request body may carry
UserData ==
  {[NoUserData EXCEPT !.role = {r}] : r \in {"admin", "user"}}
    \cup {[NoUserData EXCEPT !.is_active = {a}] : a \in BOOLEAN}
    \cup {[NoUserData EXCEPT !.first_name = {"Zed"}]}

\* router.put("/:id") of userRoutes: "requesterRole !== 'admin' && userId !== requesterId"
RouteForbids(requester, id) == requester.role # "admin" /\ id # requester.userId

\* UserController.updateUser with the guard on role and is_active left out
ControllerForbidsBroken(requester, data) == FALSE

\* UserController.updateUser: "Non-admins cannot change role or is_active"
ControllerForbids(requester, data) ==
  requester.role # "admin" /\ (data.role # {} \/ data.is_active # {})

\* UserService.updateUser: the row after "UPDATE users SET ..."
UpdatedUser(row, data) ==
  [row EXCEPT
     !.role = IF data.role = {} THEN @ ELSE Val(data.role),
     !.is_active = IF data.is_active = {} THEN @ ELSE Val(data.is_active),
     !.first_name = IF data.first_name = {} THEN @ ELSE Val(data.first_name)]

\* PUT /api/users/:id behind router.use(authenticate): the route's check, the
\* controller's check, UserService.updateUser; 403, 403, 404 or 200
UpdateUser(g, id, data) ==
  LET requester == gate[g].user
      status == IF RouteForbids(requester, id) THEN 403
                ELSE IF ControllerForbids(requester, data) THEN 403
                ELSE IF ~users[id].exists THEN 404
                ELSE 200
  IN /\ gate[g].pc = "next"
     /\ gate' = [gate EXCEPT ![g].pc = "done"]
     /\ users' = IF status = 200 THEN [users EXCEPT ![id] = UpdatedUser(users[id], data)]
                 ELSE users
     /\ lastUpdate' = [status |-> status, requester |-> requester, id |-> id, data |-> data]
     /\ UNCHANGED <<now, sessions, nextSessionId, issued, lastLogout, revokedDone>>
     /\ UNCHANGED <<lastLogin, reg, lastLogoutAll, lt, authz>>
     /\ UNCHANGED eventVars

MsgExists == <<"User with this email ", "already exists">>
MsgDuplicateKey == <<"duplicate key value violates unique constraint ", "users_email_key">>
MsgRegistered == <<"User registered successfully">>

\* AuthController.register, catch: includes("already exists") ? 409 : 500
RegisterStatusCode(message) == IF Includes(message, "already exists") THEN 409 ELSE 500

\* SERIAL PRIMARY KEY: the next id of table users
NextUserId == Cardinality({u \in UserIds : users[u].exists}) + 1

\* AuthService.register: "SELECT id FROM users WHERE email = $1"
RegisterCheck(r, email) ==
  /\ reg[r].pc = "idle"
  /\ reg' = [reg EXCEPT ![r] =
       IF UsersByEmail(email) # {}
       THEN [pc |-> "done", email |-> email,
             status |-> RegisterStatusCode(MsgExists), message |-> MsgExists]
       ELSE [pc |-> "insert", email |-> email, status |-> 0, message |-> <<>>]]
  /\ UNCHANGED authVars
  /\ UNCHANGED <<lastLogin, lastUpdate, lastLogoutAll, lt, authz>>
  /\ UNCHANGED eventVars

\* where a query of register may throw: nowhere, in the INSERT INTO users, or
\* in the INSERT INTO sessions of createSession
RegisterFaults == {"none", "users", "sessions"}

\* AuthService.register: "INSERT INTO users ..." (email UNIQUE), generateToken,
\* createSession, and the 201 response; the two INSERTs are separate
\* statements on the pool, outside any transaction
RegisterInsert(r, fault) ==
  LET email == reg[r].email
      id == NextUserId
      token == GenerateToken(id, "user", now)
  IN /\ reg[r].pc = "insert"
     /\ IF UsersByEmail(email) # {}
        THEN /\ reg' = [reg EXCEPT ![r].pc = "done",
                                   ![r].status = RegisterStatusCode(MsgDuplicateKey),
                                   ![r].message = MsgDuplicateKey]
             /\ UNCHANGED <<users, sessions, nextSessionId, issued>>
        ELSE IF fault = "users"
        THEN /\ reg' = [reg EXCEPT ![r].pc = "done",
                                   ![r].status = RegisterStatusCode(MsgFault),
                                   ![r].message = MsgFault]
             /\ UNCHANGED <<users, sessions, nextSessionId, issued>>
        ELSE IF fault = "sessions"
        THEN /\ id \in UserIds
             /\ users' = [users EXCEPT ![id] = UserRow(email, "user")]
             /\ reg' = [reg EXCEPT ![r].pc = "done",
                                   ![r].status = RegisterStatusCode(MsgFault),
                                   ![r].message = MsgFault]
             /\ UNCHANGED <<sessions, nextSessionId, issued>>
        ELSE /\ id \in UserIds
             /\ nextSessionId <= MaxSessions
             /\ users' = [users EXCEPT ![id] = UserRow(email, "user")]
             /\ sessions' = sessions \cup
                  {SessionRow(nextSessionId, id, token, GetExpirationDate(now), now)}
             /\ nextSessionId' = nextSessionId + 1
             /\ issued' = issued \cup {token}
             /\ reg' = [reg EXCEPT ![r].pc = "done", ![r].status = 201,
                                   ![r].message = MsgRegistered]
     /\ UNCHANGED <<now, gate, lastLogout, revokedDone>>
     /\ UNCHANGED <<lastLogin, lastUpdate, lastLogoutAll, lt, authz>>
     /\ UNCHANGED eventVars

(***************************************************************************)
(* SpecRegister: accounts are registered and log in.                       *)
(***************************************************************************)
\* the admin "ann" is seeded; every other account comes from registration
InitUsersSeed ==
  users = [u \in UserIds |-> IF u = 1 THEN UserRow("ann", "admin") ELSE NoUser]

InitRegister ==
  /\ InitUsersSeed
  /\ now = 0
  /\ sessions = {}
  /\ nextSessionId = 1
  /\ issued = {}
  /\ gate = [g \in GateProcs |-> GateIdle]
  /\ lastLogout = NoLogout
  /\ revokedDone = {}
  /\ InitAcct
  /\ events = [e \in EventIds |-> NoEvent]
  /\ tickets = <<>>
  /\ k0 = [e \in EventIds |-> 0]
  /\ InitProcs

NextRegister ==
  \/ \E r \in RegProcs, email \in {"ann", "bob"} : RegisterCheck(r, email)
  \/ \E r \in RegProcs : RegisterInsert(r, "none")
  \/ \E email \in Emails, ok \in BOOLEAN : Login(email, ok, FALSE)

SpecRegister == InitRegister /\ [][NextRegister]_vars

(***************************************************************************)
(* SpecIssue: register and login issue tokens while their queries may      *)
(* fail; the seeded account may have been deactivated.                     *)
(***************************************************************************)
InitIssue ==
  /\ \E active \in BOOLEAN :
       users = [u \in UserIds |->
                  IF u = 1 THEN [UserRow("ann", "admin") EXCEPT !.is_active = active]
                  ELSE NoUser]
  /\ now = 0
  /\ sessions = {}
  /\ nextSessionId = 1
  /\ issued = {}
  /\ gate = [g \in GateProcs |-> GateIdle]
  /\ lastLogout = NoLogout
  /\ revokedDone = {}
  /\ InitAcct
  /\ events = [e \in EventIds |-> NoEvent]
  /\ tickets = <<>>
  /\ k0 = [e \in EventIds |-> 0]
  /\ InitProcs

NextIssue ==
  \/ Tick
  \/ \E r \in RegProcs, email \in {"ann", "bob"} : RegisterCheck(r, email)
  \/ \E r \in RegProcs, fault \in RegisterFaults : RegisterInsert(r, fault)
  \/ \E email \in Emails, ok \in BOOLEAN, fault \in BOOLEAN : Login(email, ok, fault)

SpecIssue == InitIssue /\ [][NextIssue]_vars

(***************************************************************************)
(* SpecUsers: the seeded accounts log in, present their tokens at the gate *)
(* and are edited through PUT /api/users/:id.                              *)
(***************************************************************************)
NextUsers ==
  \/ \E email \in Emails, ok \in BOOLEAN : Login(email, ok, FALSE)
  \/ \E g \in GateProcs, h \in Headers : GateStart(g, h)
  \/ \E g \in GateProcs : GateLedger(g)
  \/ \E g \in GateProcs : GateTouch(g)
  \/ \E g \in GateProcs, id \in UserIds, data \in UserData : UpdateUser(g, id, data)

SpecUsers == Init /\ [][NextUsers]_vars

(***************************************************************************)
(* SpecLifetime: JWT_EXPIRES_IN as jwt.sign and getExpirationDate read it. *)
(* Times are in milliseconds.                                              *)
(***************************************************************************)
MsPerSecond == 1000
SecondsPerMinute == 60
MinutesPerHour == 60
HoursPerDay == 24
DaysPerWeek == 7

\* a configured lifetime is the string ToString(n) followed by the unit; the
\* unit is kept as its sequence of characters
Units == {<<"s">>, <<"m">>, <<"h">>, <<"d">>, <<"w">>, <<"m", "s">>, <<"d", "a", "y", "s">>, <<>>}
Lifetimes == [n : 1..MaxCount, unit : Units]

\* the value of a unit in the ms library, which jwt.sign uses for a string
\* expiresIn; a string of digits alone counts milliseconds
MsUnit(unit) ==
  IF unit = <<"w">> THEN DaysPerWeek * HoursPerDay * MinutesPerHour * SecondsPerMinute * MsPerSecond
  ELSE IF unit \in {<<"d">>, <<"d", "a", "y", "s">>}
    THEN HoursPerDay * MinutesPerHour * SecondsPerMinute * MsPerSecond
  ELSE IF unit = <<"h">> THEN MinutesPerHour * SecondsPerMinute * MsPerSecond
  ELSE IF unit = <<"m">> THEN SecondsPerMinute * MsPerSecond
  ELSE IF unit = <<"s">> THEN MsPerSecond
  ELSE 1

\* jwt.sign: iat = floor(now / 1000), exp = floor(iat + ms(expiresIn) / 1000)
SignedExp(expiresIn, t) ==
  (t \div MsPerSecond) + ((expiresIn.n * MsUnit(expiresIn.unit)) \div MsPerSecond)

\* expiresIn.endsWith(c)
EndsWith(expiresIn, c) ==
  Len(expiresIn.unit) > 0 /\ expiresIn.unit[Len(expiresIn.unit)] = c

\* AuthService.getExpirationDate: the last character picks the unit,
\* parseInt(expiresIn.slice(0, -1)) is the leading number; any other string
\* gives 7 days
GetExpirationDateOf(expiresIn, t) ==
  IF EndsWith(expiresIn, "d")
    THEN t + expiresIn.n * HoursPerDay * MinutesPerHour * SecondsPerMinute * MsPerSecond
  ELSE IF EndsWith(expiresIn, "h")
    THEN t + expiresIn.n * MinutesPerHour * SecondsPerMinute * MsPerSecond
  ELSE IF EndsWith(expiresIn, "m") THEN t + expiresIn.n * SecondsPerMinute * MsPerSecond
  ELSE IF EndsWith(expiresIn, "s") THEN t + expiresIn.n * MsPerSecond
  ELSE t + DaysPerWeek * HoursPerDay * MinutesPerHour * SecondsPerMinute * MsPerSecond

\* the server starts with JWT_EXPIRES_IN = expiresIn
Configure(expiresIn) ==
  /\ lt.pc = "idle"
  /\ lt' = [lt EXCEPT !.pc = "configured", !.expiresIn = expiresIn]
  /\ UNCHANGED <<lastLogin, lastUpdate, reg, lastLogoutAll, authz>>
  /\ UNCHANGED authVars
  /\ UNCHANGED eventVars

\* a login at time t: generateToken and getExpirationDate
Issue(t) ==
  /\ lt.pc = "configured"
  /\ lt' = [lt EXCEPT !.pc = "issued", !.issuedAt = t,
                      !.exp = SignedExp(lt.expiresIn, t),
                      !.expiresAt = GetExpirationDateOf(lt.expiresIn, t)]
  /\ UNCHANGED <<lastLogin, lastUpdate, reg, lastLogoutAll, authz>>
  /\ UNCHANGED authVars
  /\ UNCHANGED eventVars

\* the instants around the two expiries of the token under test
ProbeTimes ==
  {lt.issuedAt, lt.exp * MsPerSecond - 1, lt.exp * MsPerSecond,
   lt.expiresAt, lt.expiresAt + 1}

\* a request with the (unrevoked) token at time t: jwt.verify and isTokenValid
Probe(t) ==
  /\ lt.pc \in {"issued", "probed"}
  /\ t \in ProbeTimes
  /\ lt' = [lt EXCEPT !.pc = "probed", !.probedAt = t,
                      !.signatureOk = ~((t \div MsPerSecond) >= lt.exp),
                      !.ledgerOk = ~(lt.expiresAt < t)]
  /\ UNCHANGED <<lastLogin, lastUpdate, reg, lastLogoutAll, authz>>
  /\ UNCHANGED authVars
  /\ UNCHANGED eventVars

IssueTimes == 0..MaxIssueMs \cup {MsPerSecond - 1}

NextLifetime ==
  \/ \E expiresIn \in Lifetimes : Configure(expiresIn)
  \/ \E t \in IssueTimes : Issue(t)
  \/ \E t \in ProbeTimes : Probe(t)

SpecLifetime == Init /\ [][NextLifetime]_vars

(***************************************************************************)
(* SpecSessions: the Session Ledger under login, logout, logoutAll,        *)
(* cleanup and the clock.                                                  *)
(***************************************************************************)
\* the rows revokeAllUserSessions changes: WHERE user_id = $1 AND is_revoked = false
RevokedByUser(userId) == {r \in sessions : r.user_id = userId /\ ~r.is_revoked}

\* revokeAllUserSessions: SET is_revoked = true, revoked_at = CURRENT_TIMESTAMP
RevokeAllUserSessions(userId, t) ==
  {IF r \in RevokedByUser(userId) THEN [r EXCEPT !.is_revoked = TRUE, !.revoked_at = {t}] ELSE r
     : r \in sessions}

\* AuthService.logoutAll(userId): revokeAllUserSessions returns result.rowCount
\* (logoutAll itself returns nothing); "turn" tells one call from the next
LogoutAll(userId) ==
  /\ sessions' = RevokeAllUserSessions(userId, now)
  /\ lastLogoutAll' = [userId |-> userId, count |-> Cardinality(RevokedByUser(userId)),
                       turn |-> 1 - lastLogoutAll.turn]
  /\ UNCHANGED <<now, users, nextSessionId, issued, gate, lastLogout, revokedDone>>
  /\ UNCHANGED <<lastLogin, lastUpdate, reg, lt, authz>>
  /\ UNCHANGED eventVars

NextSessions ==
  \/ Tick
  \/ \E u \in UserIds : Login(users[u].email, TRUE, FALSE)
  \/ \E h \in Headers, fault \in BOOLEAN : Logout(h, fault)
  \/ \E u \in UserIds : LogoutAll(u)
  \/ Cleanup

SpecSessions == Init /\ [][NextSessions]_vars

(***************************************************************************)
(* SpecRoles: authorize behind authenticate, while an admin edits roles.   *)
(***************************************************************************)
Roles == {"admin", "user"}

\* authorize without the test of the attached role
AuthorizeBroken(user, allowedRoles) == IF user = NoIdentity THEN "r401" ELSE "next"

\* authorize(...allowedRoles): !req.user -> 401; role not in allowedRoles ->
\* 403; else next()
Authorize(user, allowedRoles) ==
  IF user = NoIdentity THEN "r401"
  ELSE IF user.role \notin allowedRoles THEN "r403"
  ELSE "next"

\* a route "authenticate, authorize(...)": authorize runs on the request the
\* gate has admitted, with the identity the gate attached
AuthorizeCall(g, allowedRoles) ==
  /\ gate[g].pc = "next"
  /\ authz' = [pc |-> Authorize(gate[g].user, allowedRoles),
               user |-> gate[g].user, allowed |-> allowedRoles]
  /\ gate' = [gate EXCEPT ![g].pc = "done"]
  /\ UNCHANGED <<now, users, sessions, nextSessionId, issued, lastLogout, revokedDone>>
  /\ UNCHANGED <<lastLogin, lastUpdate, reg, lastLogoutAll, lt>>
  /\ UNCHANGED eventVars

\* authorize on a request no gate has run for: req.user is undefined
AuthorizeBare(allowedRoles) ==
  /\ authz' = [pc |-> Authorize(NoIdentity, allowedRoles),
               user |-> NoIdentity, allowed |-> allowedRoles]
  /\ UNCHANGED authVars
  /\ UNCHANGED <<lastLogin, lastUpdate, reg, lastLogoutAll, lt>>
  /\ UNCHANGED eventVars

\* bodies of PUT /api/users/:id that set the role
RoleData == {d \in UserData : d.role # {}}

NextRoles ==
  \/ \E u \in UserIds : Login(users[u].email, TRUE, FALSE)
  \/ \E g \in GateProcs, h \in Headers : GateStart(g, h)
  \/ \E g \in GateProcs : GateLedger(g)
  \/ \E g \in GateProcs : GateTouch(g)
  \/ \E g \in GateProcs, id \in UserIds, data \in RoleData : UpdateUser(g, id, data)
  \/ \E g \in GateProcs, allowedRoles \in SUBSET Roles : AuthorizeCall(g, allowedRoles)
  \/ \E allowedRoles \in SUBSET Roles : AuthorizeBare(allowedRoles)

SpecRoles == Init /\ [][NextRoles]_vars

(***************************************************************************)
(* SpecInflight: a purchase runs behind the gate while its token is        *)
(* revoked. Request g of the gate is handled by purchase process g.        *)
(***************************************************************************)
\* router.post("/:eventId/purchase", authenticate, ...): the controller runs
\* once the gate has called next(), for the identity the gate attached
PurchaseBehindGate(g, eventId, quantity) ==
  /\ gate[g].pc = "next"
  /\ gate[g].user.userId = IdentityOf(g)
  /\ StartPurchase(g, eventId, quantity)

NextInflight ==
  \/ \E u \in UserIds : Login(users[u].email, TRUE, FALSE)
  \/ \E g \in GateProcs, h \in Headers : pc[g] = "idle" /\ GateStart(g, h)
  \/ \E g \in GateProcs : GateLedger(g)
  \/ \E g \in GateProcs : GateTouch(g)
  \/ \E h \in Headers, fault \in BOOLEAN : Logout(h, fault)
  \/ \E g \in GateProcs, e \in EventIds, q \in 0..MaxQty : PurchaseBehindGate(g, e, q)
  \/ \E p \in GateProcs : SelectForUpdate(p)
  \/ \E p \in GateProcs : UpdateAvailable(p)
  \/ \E p \in GateProcs : InsertTicket(p)
  \/ \E p \in GateProcs : Commit(p)
  \/ \E p \in GateProcs : Reread(p)
  \/ \E p \in GateProcs : QueryFault(p)
  \/ \E p \in GateProcs : Catch(p)

SpecInflight == InitPurchase /\ [][NextInflight]_vars

(***************************************************************************)
(* Properties of the purchase transaction.                                 *)
(***************************************************************************)
RECURSIVE SumQuantity(_)
SumQuantity(S) ==
  IF S = {} THEN 0
  ELSE LET p == CHOOSE x \in S : TRUE IN req[p].quantity + SumQuantity(S \ {p})

Succeeded(p) == pc[p] = "done" /\ resp[p].status = 200
Failed(p) == pc[p] = "done" /\ resp[p].status >= 400
SucceededOn(e) == {p \in Procs : Succeeded(p) /\ req[p].eventId = e}
RequestedOn(e) == {p \in Procs : pc[p] # "idle" /\ req[p].eventId = e}
OnSale(status) == status \in {"upcoming", "live"}

\* C3: with k tickets available at the start and any number of concurrent
\* purchase requests, under every interleaving at most k tickets are sold,
\* available_tickets is never negative and the quantities of the requests
\* that succeeded sum to at most k.
C3_NoOversell ==
  \A e \in EventIds :
    /\ Sold(e) <= k0[e]
    /\ events[e].available_tickets >= 0
    /\ SumQuantity(SucceededOn(e)) <= k0[e]

\* C3 witness: all requests are over, they asked for more than k together,
\* one was served and another was turned down.
C3_Witness ==
  \E e \in EventIds :
    /\ \A p \in Procs : pc[p] = "done" /\ req[p].eventId = e /\ req[p].quantity >= 1
    /\ SumQuantity(Procs) > k0[e]
    /\ \E p, q \in Procs : Succeeded(p) /\ Failed(q) /\ resp[q].status = 400
    /\ Sold(e) > 0

\* C4: in every committed state the number of ticket rows of an event equals
\* the amount purchases have taken off its available_tickets, also after a
\* purchase failed part-way through its inserts.
C4_TicketsMatchDecrement ==
  \A e \in EventIds : Sold(e) = decremented[e]

\* C4 witness: a request was rolled back after it had inserted a ticket row,
\* while another request has sold tickets.
C4_Witness ==
  \E p, q \in Procs :
    /\ Failed(p) /\ undone[p] >= 1
    /\ Succeeded(q) /\ req[q].eventId = req[p].eventId
    /\ Sold(req[p].eventId) = req[q].quantity

\* two requests for the same event, the only ones made, that together ask
\* for more than the inventory the event had
RacingPair(p, q) ==
  /\ p # q
  /\ pc[p] = "done" /\ pc[q] = "done"
  /\ \A r \in Procs \ {p, q} : pc[r] = "idle"
  /\ req[p].eventId = req[q].eventId
  /\ req[p].quantity >= 1 /\ req[q].quantity >= 1
  /\ k0[req[p].eventId] >= 1
  /\ req[p].quantity + req[q].quantity > k0[req[p].eventId]

\* every query of both requests went through and the event is on sale
Undisturbed(p, q) ==
  /\ err[p] # MsgFault /\ err[q] # MsgFault
  /\ events[req[p].eventId].exists
  /\ OnSale(events[req[p].eventId].status)

\* C5 as stated: of two racing requests exactly one succeeds and the other fails.
C5_ExactlyOneSucceeds ==
  \A p, q \in Procs :
    RacingPair(p, q) /\ Undisturbed(p, q) =>
      (Succeeded(p) /\ Failed(q)) \/ (Succeeded(q) /\ Failed(p))

\* C5 amended: two racing requests never both succeed; exactly one succeeds
\* (and the other gets 400) when at least one of them alone fits the
\* inventory, and both fail when each alone exceeds it.
C5_AtMostOneSucceeds ==
  \A p, q \in Procs :
    RacingPair(p, q) =>
      /\ ~(Succeeded(p) /\ Succeeded(q))
      /\ Undisturbed(p, q) =>
           LET k == k0[req[p].eventId]
           IN IF req[p].quantity <= k \/ req[q].quantity <= k
              THEN \/ Succeeded(p) /\ resp[q].status = 400
                   \/ Succeeded(q) /\ resp[p].status = 400
              ELSE resp[p].status = 400 /\ resp[q].status = 400

\* C5 witness: a race in which each request alone fits, one won and the
\* other was turned down for capacity.
C5_Witness ==
  \E p, q \in Procs :
    /\ RacingPair(p, q) /\ Undisturbed(p, q)
    /\ req[p].quantity <= k0[req[p].eventId] /\ req[q].quantity <= k0[req[p].eventId]
    /\ Succeeded(p) /\ resp[q].status = 400

\* C7 as stated: a purchase on a completed or cancelled event is answered
\* 400, creates no ticket rows and leaves available_tickets alone.
C7_WrongStatusIs400 ==
  \A p \in Procs :
    (/\ pc[p] = "done"
     /\ tx[p].read.exists
     /\ tx[p].read.status \in {"completed", "cancelled"})
    => resp[p].status = 400 /\ ~touched[p]

\* C8: a purchase asking for more than available_tickets is answered 400 with
\* the available count read under the row lock and the requested quantity in
\* the message, and it changes neither the event nor the ticket rows.
C8_CapacityError ==
  \A p \in Procs :
    /\ (pc[p] = "catch" /\ lock[req[p].eventId] = p) => tx[p].read = events[req[p].eventId]
    /\ (pc[p] = "done" /\ tx[p].read.exists
          /\ tx[p].read.available_tickets < req[p].quantity) =>
         /\ resp[p].status = 400
         /\ resp[p].message =
              <<"Not enough tickets ", "available", ". Available: ",
                ToString(tx[p].read.available_tickets), ", Requested: ",
                ToString(req[p].quantity)>>
         /\ ~touched[p]

\* C8 witness: of three tickets two were bought, and a second request for two
\* was answered "Available: 1, Requested: 2" with one ticket still available.
C8_Witness ==
  \E p, q \in Procs :
    /\ Succeeded(p) /\ req[p].quantity = 2 /\ k0[req[p].eventId] = 3
    /\ pc[q] = "done" /\ req[q].eventId = req[p].eventId /\ req[q].quantity = 2
    /\ resp[q].status = 400
    /\ resp[q].message =
         <<"Not enough tickets ", "available", ". Available: ", "1", ", Requested: ", "2">>
    /\ events[req[p].eventId].available_tickets = 1
    /\ Sold(req[p].eventId) = 2

\* C9 as stated: a purchase request that ends in an error response has left
\* available_tickets and the ticket rows as they were.
C9_ErrorMeansRolledBack ==
  \A p \in Procs : Failed(p) => ~touched[p]

(***************************************************************************)
(* Properties of the events table under admin edits.                       *)
(***************************************************************************)
\* C6 as stated: every event row has 0 <= available_tickets <= total_tickets,
\* whatever createEvent, purchaseTickets and updateEvent calls were made.
C6_AvailableWithinTotal ==
  \A e \in EventIds :
    events[e].exists =>
      0 <= events[e].available_tickets /\ events[e].available_tickets <= events[e].total_tickets

(***************************************************************************)
(* Properties of the Authentication Gate and of logout.                    *)
(***************************************************************************)
\* a ledger row for the token of this header that is neither revoked nor
\* past its expires_at
LiveRow(header) ==
  \E r \in sessions :
    /\ r.token_hash = HashToken(header.token)
    /\ ~r.is_revoked
    /\ r.expires_at >= now

\* a token of this server, signed and not past its exp, behind "any scheme"
SignedUnexpired(header) ==
  /\ header.scheme # "none"
  /\ header.token \in issued
  /\ Seconds(now) < header.token.exp

\* C1: the gate goes on to the ledger only with a token whose signature
\* verifies and is not expired, goes past the ledger only when the ledger
\* holds a row for the token's hash that is neither revoked nor expired, and
\* calls the next handler only after both; a request that fails a check is
\* answered 401 (a failing query: 500) and never reaches the next handler.
C1_GateAdmitsOnlyLive ==
  [][\A g \in GateProcs :
       /\ (gate[g].pc # "ledger" /\ gate'[g].pc = "ledger") => SignedUnexpired(gate'[g].header)
       /\ (gate[g].pc \notin {"ledger", "touch"} /\ gate'[g] # gate[g]
             /\ ~SignedUnexpired(gate'[g].header))
            => gate'[g].pc = "r401"
       /\ (gate[g].pc # "touch" /\ gate'[g].pc = "touch")
            => gate[g].pc = "ledger" /\ LiveRow(gate[g].header)
       /\ (gate[g].pc = "ledger" /\ gate'[g].pc # "ledger" /\ ~LiveRow(gate[g].header))
            => gate'[g].pc \in {"r401", "r500"} /\ gate'[g].user = NoIdentity
       /\ (gate[g].pc # "next" /\ gate'[g].pc = "next")
            => gate[g].pc = "touch" /\ gate'[g].user.userId = gate[g].header.token.userId
       /\ gate'[g].pc # "next" => gate'[g].user = NoIdentity
    ]_vars

\* a request with a correctly signed, unexpired token is answered 401 because
\* its ledger row is revoked
C1_Witness ==
  \E g \in GateProcs :
    /\ gate[g].pc = "r401"
    /\ gate[g].message = "Token has been revoked"
    /\ SignedUnexpired(gate[g].header)
    /\ \E r \in sessions : r.token_hash = HashToken(gate[g].header.token) /\ r.is_revoked

\* C2: a request that presents a token after a revocation of that token has
\* completed is never passed to the next handler.
C2_RevokedStaysRevoked ==
  \A g \in GateProcs : gate[g].pc = "next" => ~gate[g].afterRevoke

\* C10: logout answers 200 only to a request the gate would admit, and a
\* request with no token or with a token the gate would reject revokes nothing.
C10_LogoutIsAuthenticated ==
  /\ lastLogout.status = 200 => lastLogout.admissible
  /\ ~lastLogout.admissible => lastLogout.changed = 0

(***************************************************************************)
(* Properties of accounts, sessions and token lifetimes.                   *)
(***************************************************************************)
\* C11: no session is opened for, and the gate admits no request on behalf
\* of, a user whose is_active flag is false at that moment.
C11_InactiveNeverAdmitted ==
  [][/\ \A r \in sessions' \ sessions : users[r.user_id].is_active
     /\ \A g \in GateProcs :
          (gate[g].pc = "touch" /\ gate'[g].pc = "next")
            => users[gate'[g].user.userId].is_active
    ]_vars

\* C12: for every configured lifetime the ledger's expires_at is not earlier
\* than the exp signed into the token, and a request whose signature check
\* passes is not turned down by the ledger's expiry check.
C12_LedgerOutlivesSignature ==
  /\ lt.pc \in {"issued", "probed"} => lt.expiresAt >= lt.exp * MsPerSecond
  /\ (lt.pc = "probed" /\ lt.signatureOk) => lt.ledgerOk

\* C13: a PUT /api/users/:id by a caller authenticated as non-admin is
\* answered 403 and changes nothing when the id is not the caller's own or
\* when the body carries role or is_active; otherwise (own record, other
\* fields) and for a caller authenticated as admin the update of an existing
\* user is done, role and is_active included; no other row changes.
C13_UpdateGuard ==
  [][\A g \in GateProcs :
       (gate[g].pc = "next" /\ gate'[g].pc = "done") =>
         LET caller == gate[g].user
             id == lastUpdate'.id
             data == lastUpdate'.data
             forbidden == \/ id # caller.userId
                          \/ data.role # {}
                          \/ data.is_active # {}
         IN /\ lastUpdate'.requester = caller
            /\ \A u \in UserIds \ {id} : users'[u] = users[u]
            /\ (caller.role # "admin" /\ forbidden)
                 => lastUpdate'.status = 403 /\ users' = users
            /\ (users[id].exists /\ (caller.role = "admin" \/ ~forbidden))
                 => /\ lastUpdate'.status = 200
                    /\ data.role # {} => users'[id].role = Val(data.role)
                    /\ data.is_active # {} => users'[id].is_active = Val(data.is_active)
                    /\ data.first_name # {} => users'[id].first_name = Val(data.first_name)
    ]_vars

\* a caller authenticated as "user" asked for the admin role on their own
\* record, got 403 and still has the role "user"
C13_Witness ==
  /\ lastUpdate.status = 403
  /\ lastUpdate.requester.role = "user"
  /\ lastUpdate.id = lastUpdate.requester.userId
  /\ lastUpdate.data.role = {"admin"}
  /\ users[lastUpdate.id].role = "user"

\* the sessions getUserSessions calls active: not revoked and expires_at > now
ActiveSessions(userId) ==
  {r \in sessions : r.user_id = userId /\ ~r.is_revoked /\ r.expires_at > now}

\* C14: logoutAll(userId) returns the number of the user's active sessions,
\* afterwards no token of that user is admissible, and the rows of the other
\* users are as before.
C14_LogoutAllCountsActive ==
  [][lastLogoutAll'.turn # lastLogoutAll.turn =>
       LET u == lastLogoutAll'.userId
       IN /\ lastLogoutAll'.count = Cardinality(ActiveSessions(u))
          /\ \A t \in issued : t.userId = u => ~Admissible(BearerHeader(t))'
          /\ \A r \in sessions : r.user_id # u => r \in sessions'
    ]_vars

\* the rows this step revokes
NewlyRevoked ==
  {r \in sessions : ~r.is_revoked /\ \E q \in sessions' : q.id = r.id /\ q.is_revoked}

\* C15: revoke sets is_revoked and revoked_at = now on the non-revoked rows
\* of the token and returns true; on a token whose rows are all revoked, or
\* that has no row, it returns false and changes nothing; a revoked row keeps
\* its revoked_at for as long as it exists.
C15_RevokeIdempotent ==
  [][/\ \A r \in sessions :
          r.is_revoked => (r \in sessions' \/ \A q \in sessions' : q.id # r.id)
     /\ \A r \in NewlyRevoked :
          [r EXCEPT !.is_revoked = TRUE, !.revoked_at = {now}] \in sessions'
     /\ (NewlyRevoked # {} /\ lastLogoutAll' = lastLogoutAll)
          => lastLogout'.status = 200 /\ lastLogout'.changed = Cardinality(NewlyRevoked)
     /\ (lastLogout' # lastLogout /\ lastLogout'.status = 200)
          => /\ lastLogout'.changed > 0 <=> lastLogout'.hadRow
             /\ lastLogout'.changed = 0 => sessions' = sessions
    ]_vars

\* a second revoke of a token, at a later time than the first: it returned
\* false and the row still carries the time of the first revoke
C15_Witness ==
  /\ lastLogout.status = 200
  /\ lastLogout.changed = 0
  /\ lastLogout.hadRevoked /\ ~lastLogout.hadRow
  /\ \E r \in sessions : r.is_revoked /\ r.revoked_at # {} /\ Val(r.revoked_at) < now

\* C16: isTokenValid answers true only for a token whose ledger row is not
\* revoked and has expires_at > now, the instant now = expires_at included:
\* the gate passes the ledger check only if such a row exists.
C16_ValidIffBeforeExpiry ==
  [][\A g \in GateProcs :
       (gate[g].pc = "ledger" /\ gate'[g].pc = "touch") =>
         \E r \in sessions :
           /\ r.token_hash = HashToken(gate[g].header.token)
           /\ ~r.is_revoked
           /\ r.expires_at > now
    ]_vars

\* C17: a request that passed the signature check and the ledger check
\* reaches the next handler whether or not the touch of last_used_at works:
\* from the touch step the request never ends in an error response.
C17_TouchFailureIsHarmless ==
  [][\A g \in GateProcs :
       gate[g].pc = "touch" => gate'[g].pc \in {"touch", "next"}
    ]_vars

\* C18: no two users share an email; a finished registration was answered
\* 201 or, when the email already belonged to a user, 409; of two
\* registrations of one email at most one was answered 201; and every user
\* besides the seeded admin comes from a registration answered 201.
C18_DuplicateEmailIs409 ==
  /\ \A u, v \in UserIds :
       (u # v /\ users[u].exists /\ users[v].exists) => users[u].email # users[v].email
  /\ \A r \in RegProcs : reg[r].pc = "done" => reg[r].status \in {201, 409}
  /\ \A r, q \in RegProcs :
       (r # q /\ reg[r].email = reg[q].email) => ~(reg[r].status = 201 /\ reg[q].status = 201)
  /\ Cardinality({u \in UserIds : users[u].exists})
       = 1 + Cardinality({r \in RegProcs : reg[r].status = 201})

\* C19: an admin edit of total_tickets alone, written to an event whose row
\* accounts for every ticket sold (total_tickets - available_tickets = sold)
\* and whose new total is not below the number sold, leaves the row
\* accounting for every ticket sold, also when a purchase of the event
\* commits between the edit's reading and its write.
C19_EditKeepsSoldCount ==
  [][(/\ adm.pc = "write" /\ adm'.pc = "idle"
      /\ adm.data.total_tickets # {} /\ adm.data.available_tickets = {}
      /\ events[adm.id].exists
      /\ events[adm.id].total_tickets - events[adm.id].available_tickets = Sold(adm.id)
      /\ Val(adm.data.total_tickets) >= Sold(adm.id))
     => events'[adm.id].total_tickets - events'[adm.id].available_tickets = Sold(adm.id)
    ]_vars

\* C20: a failed login for an email that has no account and a failed login
\* with a wrong password for an existing account get the same response,
\* 401 with the message "Invalid email or password".
C20_FailedLoginIsGeneric ==
  (lastLogin.status # 0 /\ (~lastLogin.hadAccount \/ ~lastLogin.passwordOk))
    => (lastLogin.status = 401 /\ lastLogin.message = MsgInvalidLogin)

\* C21: register and login return a token only in a step that records the
\* ledger row of that token; login does so only for an existing, active
\* account with the right password; a login or a registration that ends
\* in an error returns no token and creates no session row.
C21_TokenAfterLedgerRow ==
  [][/\ \A t \in issued' \ issued :
          \E s \in sessions' \ sessions : s.token_hash = HashToken(t)
     /\ \A s \in sessions' \ sessions :
          users'[s.user_id].exists /\ users'[s.user_id].is_active
     /\ (sessions' # sessions /\ reg' = reg)
          => (lastLogin'.status = 200 /\ lastLogin'.hadAccount /\ lastLogin'.passwordOk)
     /\ (lastLogin' # lastLogin /\ lastLogin'.status # 200)
          => (sessions' = sessions /\ issued' = issued)
     /\ \A r \in RegProcs :
          (reg'[r] # reg[r] /\ reg'[r].status # 201)
            => (sessions' = sessions /\ issued' = issued)
    ]_vars

\* a registration and a login have both returned a token, each with its row
C21_Witness ==
  /\ lastLogin.status = 200
  /\ \E r \in RegProcs : reg[r].status = 201
  /\ Cardinality(sessions) = 2
  /\ \A t \in issued : \E s \in sessions : s.token_hash = HashToken(t)

\* C29: register is all-or-nothing: a registration that ends in an error
\* has created no user row, so no account carries its email because of it.
C29_RegisterAllOrNothing ==
  [][\A r \in RegProcs :
       (reg[r].pc = "insert" /\ reg'[r].pc = "done" /\ reg'[r].status # 201)
         => users' = users
    ]_vars

\* the decisions authenticate can reach now, at its ledger lookup and for a
\* whole request with this header: "next" or "r401", one for every row
\* findSessionByToken may return
LedgerDecisions(token) ==
  {IF IsTokenValid(session, now) THEN "next" ELSE "r401" :
     session \in FindSessionByToken(token)}

GateDecisions(header) ==
  IF CheckHeader(header, now) # "ok" THEN {"r401"} ELSE LedgerDecisions(header.token)

C23_FaultIs500 ==
  [][\A g \in GateProcs :
       /\ gate[g].pc = "ledger" => gate'[g].pc \in {"ledger", "touch", "r401", "r500"}
       /\ gate[g].pc = "touch" => gate'[g].pc \in {"touch", "next", "r500"}
       /\ (gate[g].pc = "ledger" /\ gate'[g].pc = "r401")
            => "r401" \in LedgerDecisions(gate[g].header.token)
       /\ (gate[g].pc = "ledger" /\ gate'[g].pc = "touch")
            => "next" \in LedgerDecisions(gate[g].header.token)
       /\ (gate[g].pc # "r500" /\ gate'[g].pc = "r500")
            => /\ gate[g].pc \in {"ledger", "touch"}
               /\ gate'[g].message = "Token verification failed"
               /\ gate'[g].user = NoIdentity
       /\ (gate[g].pc \in {"r401", "r500", "next"} /\ gate'[g] # gate[g])
            => gate'[g].pc \in {"ledger", "r401"} /\ gate'[g].user = NoIdentity
    ]_vars

\* a request with an admissible token was answered 500 after a failed query
C23_Witness ==
  \E g \in GateProcs : gate[g].pc = "r500" /\ Admissible(gate[g].header)

\* C24: authorize(allowedRoles) answers 401 exactly when no identity is
\* attached to the request, 403 exactly when an identity is attached whose
\* role is not in allowedRoles, and calls the next handler exactly when an
\* identity is attached and its role is in allowedRoles.
C24_AuthorizeByRole ==
  authz.pc # "idle" =>
    /\ authz.pc \in {"r401", "r403", "next"}
    /\ authz.pc = "r401" <=> authz.user = NoIdentity
    /\ authz.pc = "r403" <=> (authz.user # NoIdentity /\ authz.user.role \notin authz.allowed)
    /\ authz.pc = "next" <=> (authz.user # NoIdentity /\ authz.user.role \in authz.allowed)

\* authorize("admin") has refused a request the gate admitted as a plain user
C24_Witness ==
  /\ authz.pc = "r403"
  /\ authz.user.role = "user"
  /\ authz.allowed = {"admin"}

\* C26: the role the gate attaches to a request it admits is the role stored
\* for that user at that moment, and authorize lets a request pass only
\* when the role stored for its user is in allowedRoles.
C26_AttachedRoleIsStored ==
  [][/\ \A g \in GateProcs :
          (gate[g].pc = "touch" /\ gate'[g].pc = "next")
            => gate'[g].user.role = users[gate'[g].user.userId].role
     /\ (authz' # authz /\ authz'.pc = "next")
          => users[authz'.user.userId].role \in authz'.allowed
    ]_vars

\* the committed ticket rows of this event owned by this user
RowsOf(e, u) == {i \in 1..Len(tickets) : tickets[i].event_id = e /\ tickets[i].user_id = u}

\* C25: the COMMIT of a purchase of quantity q adds exactly q ticket rows
\* for the event, each of quantity 1 and owned by the user id of the
\* request's authenticated identity, and takes exactly q off
\* available_tickets, leaving every other row alone; a purchase answered 200
\* has exactly q such rows.
C25_OneRowPerUnit ==
  [][\A p \in Procs :
       /\ (pc[p] = "commit" /\ pc'[p] = "reread")
            => /\ tickets' = tickets \o
                    [i \in 1..req[p].quantity |->
                       [event_id |-> req[p].eventId, user_id |-> IdentityOf(p), quantity |-> 1]]
               /\ events'[req[p].eventId].available_tickets
                    = events[req[p].eventId].available_tickets - req[p].quantity
               /\ \A e \in EventIds \ {req[p].eventId} : events'[e] = events[e]
       /\ Succeeded(p)'
            => Cardinality(RowsOf(req[p].eventId, IdentityOf(p)))' = req'[p].quantity
    ]_vars

\* a purchase of more than one ticket has succeeded
C25_Witness ==
  \E p \in Procs :
    /\ Succeeded(p)
    /\ req[p].quantity = MaxQty
    /\ Cardinality(RowsOf(req[p].eventId, IdentityOf(p))) = MaxQty

\* C27: no two ledger rows carry the same token hash, and a logout revokes
\* the row of at most one login.
C27_DistinctTokenHashes ==
  /\ \A r, q \in sessions : r.id # q.id => r.token_hash # q.token_hash
  /\ lastLogout.changed <= 1

\* C28: no purchase transaction commits after a revocation of the token its
\* request presented has been committed.
C28_NoCommitAfterRevoke ==
  [][\A g \in GateProcs :
       (pc[g] = "commit" /\ pc'[g] = "reread")
         => gate[g].header.token \notin revokedDone
    ]_vars

====
